---- MODULE Spec2Model ----
(***************************************************************************)
(* Model of irxmit.py (class IRxmit) driven by a caller script in the      *)
(* style of tv.py: the script fixes a format name and a hexadecimal        *)
(* payload, constructs the transmitter, sends the payload and tears the    *)
(* transmitter down.  A string is a sequence of one-character strings.     *)
(***************************************************************************)
EXTENDS Integers, Sequences, FiniteSets, TLC

VARIABLES format, sig, obj, prm, pi, bits, err, sends

vars == <<format, sig, obj, prm, pi, bits, err, sends>>

(***************************************************************************)
(* Bounds of the model.                                                    *)
(***************************************************************************)
\* longest payload text drawn over the whole alphabet
MaxLen == 4
\* longest all-'F' payload, in bytes
MaxFF == 5
\* number of send calls of one script
MaxSends == 2
\* number of pi.stop() calls after which no explicit __del__() call is made
MaxStops == 1

(***************************************************************************)
(* Program constants.                                                      *)
(***************************************************************************)
\* GPIO pin the scripts pass to the constructor
PIN == 13
\* nominal frame gap in microseconds of the trailer
T_GAP == 8000

RECURSIVE Pow2(_)
Pow2(n) == IF n = 0 THEN 1 ELSE 2 * Pow2(n - 1)

\* 1 << self.__pin
PinMask == Pow2(PIN)

(***************************************************************************)
(* Characters and Python's int(text, 16).                                  *)
(***************************************************************************)
HexChars ==
    {"0", "1", "2", "3", "4", "5", "6", "7", "8", "9",
     "a", "b", "c", "d", "e", "f", "A", "B", "C", "D", "E", "F"}

HexVal(c) ==
    CASE c = "0" -> 0 [] c = "1" -> 1 [] c = "2" -> 2 [] c = "3" -> 3
      [] c = "4" -> 4 [] c = "5" -> 5 [] c = "6" -> 6 [] c = "7" -> 7
      [] c = "8" -> 8 [] c = "9" -> 9
      [] c \in {"a", "A"} -> 10 [] c \in {"b", "B"} -> 11
      [] c \in {"c", "C"} -> 12 [] c \in {"d", "D"} -> 13
      [] c \in {"e", "E"} -> 14 [] c \in {"f", "F"} -> 15

\* characters str.strip() removes
Whitespace == {" "}

RECURSIVE LStrip(_)
LStrip(t) ==
    IF t # <<>> /\ Head(t) \in Whitespace THEN LStrip(Tail(t)) ELSE t

RECURSIVE RStrip(_)
RStrip(t) ==
    IF t # <<>> /\ t[Len(t)] \in Whitespace
    THEN RStrip(SubSeq(t, 1, Len(t) - 1)) ELSE t

RECURSIVE Digits16(_)
\* value of a non-empty run of hexadecimal digits, most significant first
Digits16(t) ==
    IF t = <<>> THEN 0
    ELSE 16 * Digits16(SubSeq(t, 1, Len(t) - 1)) + HexVal(t[Len(t)])

\* int(t, 16) for a text of at most two characters: surrounding whitespace is
\* stripped, one sign is accepted, and what is left must be a non-empty run
\* of hexadecimal digits (a "0x" prefix or an underscore needs more than two
\* characters to be valid).  ok = FALSE stands for ValueError.
int16(t) ==
    LET u == RStrip(LStrip(t))
        signed == u # <<>> /\ Head(u) \in {"+", "-"}
        d == IF signed THEN Tail(u) ELSE u
        good == d # <<>> /\ \A i \in 1..Len(d) : d[i] \in HexChars
    IN  IF ~good THEN [ok |-> FALSE, val |-> 0]
        ELSE [ok |-> TRUE,
              val |-> IF signed /\ Head(u) = "-" THEN 0 - Digits16(d)
                      ELSE Digits16(d)]

RECURSIVE Bin(_, _)
\* binary digits of n >= 0, most significant first, zero-padded to width w
Bin(n, w) ==
    IF n = 0 /\ w <= 0 THEN <<>>
    ELSE Bin(n \div 2, w - 1) \o <<IF n % 2 = 1 THEN "1" ELSE "0">>

\* f'{v:08b}': the sign of a negative value takes one of the eight columns
Format08b(v) == IF v < 0 THEN <<"-">> \o Bin(0 - v, 7) ELSE Bin(v, 8)

\* t[::-1]
Reverse(t) == [i \in 1..Len(t) |-> t[Len(t) + 1 - i]]

\* s[i * 2: i * 2 + 2], i counted from 0
ByteText(s, i) == SubSeq(s, 2 * i + 1, 2 * i + 2)

\* the variant of ByteBits that forgets the [::-1]
ByteBitsMSB(byte) == Format08b(int16(byte).val)

\* bits_MSB_first[::-1] of one two-character byte text
ByteBits(byte) == Reverse(Format08b(int16(byte).val))

RECURSIVE BitsUpTo(_, _)
BitsUpTo(s, n) ==
    IF n = 0 THEN <<>>
    ELSE BitsUpTo(s, n - 1) \o ByteBits(ByteText(s, n - 1))

\* IRxmit.get_bitstream: ok = FALSE when int() raises ValueError on a byte
get_bitstream(s) ==
    LET n == Len(s) \div 2
    IN  IF \E i \in 0..(n - 1) : ~int16(ByteText(s, i)).ok
        THEN [ok |-> FALSE, bits |-> <<>>]
        ELSE [ok |-> TRUE, bits |-> BitsUpTo(s, n)]

(***************************************************************************)
(* Timing parameters set by the constructor.                               *)
(***************************************************************************)
\* the private attributes before (or without) their assignment
NoParams ==
    [T_CARRIER |-> 0, MARK_CYCLES |-> 0, MARK_OFF |-> 0, T_FRAME_MAX |-> 0,
     T_LEADER_ON |-> 0, T_LEADER_OFF |-> 0]

\* T_FRAME_MAX is kept in microseconds (0.13 s and 0.108 s in the source)
AEHA ==
    [T_CARRIER |-> 26, MARK_CYCLES |-> 17, MARK_OFF |-> 3,
     T_FRAME_MAX |-> 130000, T_LEADER_ON |-> 8, T_LEADER_OFF |-> 4]

NEC ==
    [T_CARRIER |-> 26, MARK_CYCLES |-> 22, MARK_OFF |-> 3,
     T_FRAME_MAX |-> 108000, T_LEADER_ON |-> 16, T_LEADER_OFF |-> 8]

\* the variant of Params whose else branch falls back to the default format
ParamsDefaulting(f) ==
    IF f = "NEC" THEN [ok |-> TRUE, prm |-> NEC]
    ELSE [ok |-> TRUE, prm |-> AEHA]

\* the if / elif / else on format of __init__; ok = FALSE is the raise
Params(f) ==
    IF f = "AEHA" THEN [ok |-> TRUE, prm |-> AEHA]
    ELSE IF f = "NEC" THEN [ok |-> TRUE, prm |-> NEC]
    ELSE [ok |-> FALSE, prm |-> NoParams]

(***************************************************************************)
(* Pulses and the wave buffer of synthesize_frame.                         *)
(***************************************************************************)
\* pigpio.pulse(gpio_on, gpio_off, delay)
pulse(on, off, delay) == [gpio_on |-> on, gpio_off |-> off, delay |-> delay]

OnPulse(p) == pulse(PinMask, 0, p.T_CARRIER \div 2)

OffPulse(p) == pulse(0, PinMask, p.T_CARRIER \div 2)

\* n carrier cycles: the body of the for loops, (on, off) appended n times
Carrier(p, n) ==
    [i \in 1..(2 * n) |-> IF i % 2 = 1 THEN OnPulse(p) ELSE OffPulse(p)]

\* the variant of LeaderPulses that takes the leader's off length for both parts
LeaderPulsesSwapped(p) ==
    Carrier(p, p.MARK_CYCLES * p.T_LEADER_OFF)
        \o <<pulse(0, PinMask, p.T_CARRIER * p.MARK_CYCLES * p.T_LEADER_OFF)>>

\* the leader pulses
LeaderPulses(p) ==
    Carrier(p, p.MARK_CYCLES * p.T_LEADER_ON)
        \o <<pulse(0, PinMask, p.T_CARRIER * p.MARK_CYCLES * p.T_LEADER_OFF)>>

\* the variant of BitPulses that gives a '1' the space of a '0'
BitPulsesNoRatio(p, bit) ==
    Carrier(p, p.MARK_CYCLES)
        \o (IF bit \in {"0", "1"}
            THEN <<pulse(0, PinMask, p.T_CARRIER * p.MARK_CYCLES)>>
            ELSE <<>>)

\* the pulses of one element of the bitstream: the mark, then the space of
\* a '0' or of a '1'; any other character gets the mark alone
BitPulses(p, bit) ==
    Carrier(p, p.MARK_CYCLES)
        \o (IF bit = "0"
            THEN <<pulse(0, PinMask, p.T_CARRIER * p.MARK_CYCLES)>>
            ELSE IF bit = "1"
            THEN <<pulse(0, PinMask, p.T_CARRIER * p.MARK_CYCLES * p.MARK_OFF)>>
            ELSE <<>>)

RECURSIVE DataPulses(_, _)
\* for bit in bits
DataPulses(p, b) ==
    IF b = <<>> THEN <<>>
    ELSE BitPulses(p, Head(b)) \o DataPulses(p, Tail(b))

\* the variant of TrailerPulses that forgets to subtract the mark
TrailerPulsesFullGap(p) ==
    Carrier(p, p.MARK_CYCLES) \o <<pulse(0, PinMask, T_GAP)>>

\* the trailer pulses
TrailerPulses(p) ==
    Carrier(p, p.MARK_CYCLES)
        \o <<pulse(0, PinMask, T_GAP - p.T_CARRIER * p.MARK_CYCLES)>>

\* the wave buffer wb that synthesize_frame builds
WaveBuffer(p, b) == LeaderPulses(p) \o DataPulses(p, b) \o TrailerPulses(p)

(***************************************************************************)
(* The pigpio handle: the calls the class makes on it, each logged.        *)
(***************************************************************************)
NoDevice ==
    [connected |-> FALSE, pending |-> <<>>, wave |-> <<>>, tx |-> <<>>,
     log |-> <<>>]

\* pigpio.pi(host) followed by set_mode(pin, OUTPUT)
pi_open(d) ==
    [d EXCEPT !.connected = TRUE, !.log = @ \o <<"pi", "set_mode">>]

pi_stop(d) == [d EXCEPT !.connected = FALSE, !.log = Append(@, "stop")]

wave_clear(d) ==
    [d EXCEPT !.pending = <<>>, !.wave = <<>>, !.log = Append(@, "wave_clear")]

wave_add_generic(d, wb) ==
    [d EXCEPT !.pending = @ \o wb, !.log = Append(@, "wave_add_generic")]

wave_create(d) ==
    [d EXCEPT !.wave = d.pending, !.pending = <<>>,
              !.log = Append(@, "wave_create")]

wave_send_once(d) ==
    [d EXCEPT !.tx = d.wave, !.log = Append(@, "wave_send_once")]

\* synthesize_frame: builds wb, then wave_clear, wave_add_generic, wave_create
synthesize_frame(d, p, b) ==
    wave_create(wave_add_generic(wave_clear(d), WaveBuffer(p, b)))

Count(log, name) == Cardinality({i \in 1..Len(log) : log[i] = name})

(***************************************************************************)
(* The caller script's inputs.                                             *)
(***************************************************************************)
Formats == {"AEHA", "NEC", "RC5", "nec"}

Alphabet == {"0", "c", "g", "-"}

RECURSIVE Repeat(_, _)
Repeat(c, n) == IF n = 0 THEN <<>> ELSE Append(Repeat(c, n - 1), c)

Payloads ==
    UNION {[1..k -> Alphabet] : k \in 0..MaxLen}
        \cup {Repeat("F", 2 * k) : k \in 1..MaxFF}

(***************************************************************************)
(* The state machine.                                                      *)
(***************************************************************************)
Init ==
    /\ format \in Formats
    /\ sig \in Payloads
    /\ obj = "none"
    /\ prm = NoParams
    /\ pi = NoDevice
    /\ bits = <<>>
    /\ err = "none"
    /\ sends = 0

\* IRxmit(pin, format = format).  When __init__ raises, the new object is
\* dropped and its finalizer __del__ releases the handle it had obtained.
Construct ==
    /\ obj = "none"
    /\ LET r == Params(format)
       IN  IF r.ok
           THEN /\ obj' = "live"
                /\ prm' = r.prm
                /\ pi' = pi_open(pi)
                /\ err' = "none"
           ELSE /\ obj' = "dead"
                /\ prm' = NoParams
                /\ pi' = pi_stop(pi_open(pi))
                /\ err' = "Exception"
    /\ UNCHANGED <<format, sig, bits, sends>>

\* ir.send(sig).  A stopped handle faults on the first call made on it.
Send ==
    /\ obj = "live"
    /\ sends < MaxSends
    /\ sends' = sends + 1
    /\ LET r == get_bitstream(sig)
       IN  IF ~r.ok
           THEN /\ err' = "ValueError"
                /\ UNCHANGED <<bits, pi>>
           ELSE IF ~pi.connected
           THEN /\ err' = "DeviceFault"
                /\ bits' = r.bits
                /\ UNCHANGED pi
           ELSE /\ err' = "none"
                /\ bits' = r.bits
                /\ pi' = wave_send_once(synthesize_frame(pi, prm, r.bits))
    /\ UNCHANGED <<format, sig, obj, prm>>

\* ir.__del__() called by hand: the object stays referenced
ExplicitDel ==
    /\ obj = "live"
    /\ Count(pi.log, "stop") < MaxStops
    /\ pi' = pi_stop(pi)
    /\ UNCHANGED <<format, sig, obj, prm, bits, err, sends>>

\* del ir (or the end of the script): the finalizer __del__ runs
Del ==
    /\ obj = "live"
    /\ obj' = "dead"
    /\ pi' = pi_stop(pi)
    /\ UNCHANGED <<format, sig, prm, bits, err, sends>>

Next == Construct \/ Send \/ ExplicitDel \/ Del

Spec == Init /\ [][Next]_vars

(***************************************************************************)
(* Vocabulary of the properties.                                           *)
(***************************************************************************)
\* a waveform has been handed to the device and played
Sent == pi.tx # <<>>

Tx == pi.tx

IsOn(q, d) == q.gpio_on = PinMask /\ q.gpio_off = 0 /\ q.delay = d

IsOff(q, d) == q.gpio_on = 0 /\ q.gpio_off = PinMask /\ q.delay = d

RECURSIVE SumDelay(_, _, _)
\* total duration of the segments w[lo..hi]
SumDelay(w, lo, hi) ==
    IF lo > hi THEN 0
    ELSE IF lo = hi THEN w[lo].delay
    ELSE LET m == (lo + hi) \div 2
         IN  SumDelay(w, lo, m) + SumDelay(w, m + 1, hi)

\* w[from + 1 .. from + 2 * n] is n (on, off) pairs of half microseconds each
IsCarrier(w, from, n, half) ==
    /\ from + 2 * n <= Len(w)
    /\ \A k \in 1..(2 * n) :
          IF k % 2 = 1 THEN IsOn(w[from + k], half) ELSE IsOff(w[from + k], half)

\* number of segments of the leader
LeaderLen == 2 * prm.MARK_CYCLES * prm.T_LEADER_ON + 1

\* number of segments of one mark with its space
SlotLen == 2 * prm.MARK_CYCLES + 1

MarkDuration == prm.T_CARRIER * prm.MARK_CYCLES

ValidHex(s) == Len(s) % 2 = 0 /\ \A i \in 1..Len(s) : s[i] \in HexChars

Malformed(s) == Len(s) % 2 = 1 \/ \E i \in 1..Len(s) : s[i] \notin HexChars

\* byte k (from 1) of a valid payload text, most significant nibble first
PayloadByte(s, k) == 16 * HexVal(s[2 * k - 1]) + HexVal(s[2 * k])

\* group k (from 1) of eight bits, its order reversed, read as a byte
RegroupedByte(b, k) ==
    LET g == SubSeq(b, 8 * k - 7, 8 * k)
        r == [j \in 1..8 |-> g[9 - j]]
    IN  SumDelay([j \in 1..8 |->
                    [delay |-> IF r[j] = "1" THEN Pow2(8 - j) ELSE 0]], 1, 8)

(***************************************************************************)
(* Properties.                                                             *)
(***************************************************************************)
\* C1: for a valid even-length hexadecimal payload, get_bitstream returns
\* 8 * (len / 2) bits, and regrouping them by eight, reversing each group and
\* reading it as a byte gives back the payload's bytes in their order.
C1_RoundTrip ==
    (ValidHex(sig) /\ sends > 0) =>
        /\ err # "ValueError"
        /\ Len(bits) = 8 * (Len(sig) \div 2)
        /\ \A i \in 1..Len(bits) : bits[i] \in {"0", "1"}
        /\ \A k \in 1..(Len(sig) \div 2) :
              RegroupedByte(bits, k) = PayloadByte(sig, k)

C1_Witness ==
    /\ sig = <<"0", "c", "c", "0">>
    /\ sends > 0
    /\ Len(bits) = 16

\* C2: every malformed payload (odd length, or a non-hex character) makes
\* send fail before synthesis: nothing is encoded, loaded or played.
C2_MalformedRejected ==
    (Malformed(sig) /\ sends > 0) =>
        /\ err = "ValueError"
        /\ Count(pi.log, "wave_add_generic") = 0

\* C3: send with an empty payload fails, and no leader-and-trailer-only
\* train is synthesized or handed to the device.
C3_EmptyRejected ==
    (sig = <<>> /\ sends > 0) =>
        /\ err = "ValueError"
        /\ Count(pi.log, "wave_add_generic") = 0
        /\ ~Sent

\* C4: constructing with a format name other than exactly 'AEHA' or 'NEC'
\* fails, leaves no transmitter and sets no timing profile.
C4_UnknownFormat ==
    (format \notin {"AEHA", "NEC"} /\ obj # "none") =>
        /\ obj = "dead"
        /\ err = "Exception"
        /\ prm = NoParams
        /\ sends = 0
        /\ ~Sent

C4_Witness == format = "nec" /\ err = "Exception" /\ obj = "dead"

\* C5: the device handle is released at most once per acquisition; a
\* repeated teardown does not close the device again.
C5_ReleasedOnce == Count(pi.log, "stop") <= Count(pi.log, "pi")

\* C6: play-once comes only after clear-pending, load and
\* create-waveform-handle in that order, on a train made of the complete
\* leader, one mark-and-space per element of the bitstream and the trailer;
\* when encoding fails nothing is loaded and nothing is played.
C6_AllOrNothing ==
    /\ \A i \in 1..Len(pi.log) :
          pi.log[i] = "wave_send_once" =>
              /\ i > 3
              /\ pi.log[i - 3] = "wave_clear"
              /\ pi.log[i - 2] = "wave_add_generic"
              /\ pi.log[i - 1] = "wave_create"
    /\ Sent =>
          /\ Len(Tx) = LeaderLen + Len(bits) * SlotLen + SlotLen
          /\ Cardinality({i \in 1..Len(Tx) :
                             Tx[i].delay # prm.T_CARRIER \div 2})
                = Len(bits) + 2
    /\ err = "ValueError" =>
          /\ Count(pi.log, "wave_add_generic") = 0
          /\ Count(pi.log, "wave_send_once") = 0
          /\ pi.pending = <<>> /\ pi.wave = <<>> /\ ~Sent

\* C7: each data bit is MARK_CYCLES (on, off) pairs of T_CARRIER // 2
\* microseconds, T_CARRIER * MARK_CYCLES in total whatever the bit, then one
\* off segment of the mark's duration for a 0 and MARK_OFF times it for a 1;
\* the bits come in the order of the bitstream.
C7_DataBits ==
    Sent =>
        \A i \in 1..Len(bits) :
            (\A j \in 1..i : bits[j] \in {"0", "1"}) =>
                LET base == LeaderLen + (i - 1) * SlotLen
                IN  /\ IsCarrier(Tx, base, prm.MARK_CYCLES, prm.T_CARRIER \div 2)
                    /\ SumDelay(Tx, base + 1, base + 2 * prm.MARK_CYCLES)
                          = MarkDuration
                    /\ base + SlotLen <= Len(Tx)
                    /\ IsOff(Tx[base + SlotLen],
                             IF bits[i] = "0" THEN MarkDuration
                             ELSE MarkDuration * prm.MARK_OFF)

C7_Witness ==
    /\ Sent
    /\ format = "NEC"
    /\ sig = <<"c", "0", "0", "c">>
    /\ IsOff(Tx[LeaderLen + SlotLen], 572)
    /\ IsOff(Tx[LeaderLen + 11 * SlotLen], 1716)

\* C8: every train begins with the leader, MARK_CYCLES * T_LEADER_ON pairs
\* then one off segment of T_CARRIER * MARK_CYCLES * T_LEADER_OFF: 136 pairs
\* of 13 us (3536 us) then 1768 us for AEHA, 352 pairs (9152 us) then
\* 4576 us for NEC.
C8_Leader ==
    Sent =>
        LET n == prm.MARK_CYCLES * prm.T_LEADER_ON
        IN  /\ n = (IF format = "AEHA" THEN 136 ELSE 352)
            /\ IsCarrier(Tx, 0, n, 13)
            /\ SumDelay(Tx, 1, 2 * n) = MarkDuration * prm.T_LEADER_ON
            /\ SumDelay(Tx, 1, 2 * n) = (IF format = "AEHA" THEN 3536 ELSE 9152)
            /\ 2 * n + 1 <= Len(Tx)
            /\ IsOff(Tx[2 * n + 1],
                     prm.T_CARRIER * prm.MARK_CYCLES * prm.T_LEADER_OFF)
            /\ Tx[2 * n + 1].delay = (IF format = "AEHA" THEN 1768 ELSE 4576)

C8_Witness ==
    /\ Sent
    /\ format = "AEHA"
    /\ Len(bits) = 8
    /\ Tx[273].delay = 1768

\* C9: every train ends with the trailer, one mark of MARK_CYCLES pairs then
\* a last off segment of 8000 minus the mark's duration, whatever the number
\* of data bits: 7558 us for AEHA, 7428 us for NEC, never non-positive.
C9_Trailer ==
    Sent =>
        LET n == Len(Tx)
        IN  /\ n >= LeaderLen + SlotLen
            /\ IsCarrier(Tx, n - SlotLen, prm.MARK_CYCLES, prm.T_CARRIER \div 2)
            /\ IsOff(Tx[n], 8000 - MarkDuration)
            /\ Tx[n].delay = (IF format = "AEHA" THEN 7558 ELSE 7428)
            /\ Tx[n].delay > 0

C9_Witness ==
    /\ Sent
    /\ format = "NEC"
    /\ Len(bits) = 40
    /\ Tx[Len(Tx)].delay = 7428

\* C10: the total duration of a train handed to the device does not exceed
\* T_FRAME_MAX (130000 us for AEHA, 108000 us for NEC).
C10_WithinBudget ==
    Sent => SumDelay(Tx, 1, Len(Tx)) <= prm.T_FRAME_MAX

====
